---- MODULE Spec2Model ----
(***************************************************************************)
(* A model of mediasort.py: the path helpers, the tag reconciler           *)
(* (repair_tags), the encoding resolver (guess_encoding / reencode_tags)   *)
(* and the destination planner (get_new_filename, get_exists_path_part).   *)
(*                                                                         *)
(* Python strings are modelled as sequences of one-character strings, so   *)
(* that replace, strip, startswith, the regular expressions and int() are  *)
(* computed character by character.  None is the value NoneVal.           *)
(***************************************************************************)
EXTENDS Integers, Sequences, FiniteSets, TLC

\* ------------------------------------------------------------------ text

NoneVal == <<"None">>

Digits == <<"0", "1", "2", "3", "4", "5", "6", "7", "8", "9">>
LowerLetters == <<"a", "b", "c", "d", "e", "f", "g", "h", "i", "j", "k", "l", "m",
                  "n", "o", "p", "q", "r", "s", "t", "u", "v", "w", "x", "y", "z">>
UpperLetters == <<"A", "B", "C", "D", "E", "F", "G", "H", "I", "J", "K", "L", "M",
                  "N", "O", "P", "Q", "R", "S", "T", "U", "V", "W", "X", "Y", "Z">>

RangeOf(s) == {s[i] : i \in DOMAIN s}

IsDigit(c) == c \in RangeOf(Digits)
IsLowerLetter(c) == c \in RangeOf(LowerLetters)
IsUpperLetter(c) == c \in RangeOf(UpperLetters)
\* \w of the re module, plus the apostrophe of the class [\w']
IsWordChar(c) == IsDigit(c) \/ IsLowerLetter(c) \/ IsUpperLetter(c) \/ c = "_" \/ c = "'"

IndexIn(seq, c) == CHOOSE i \in DOMAIN seq : seq[i] = c
DigitVal(c) == IndexIn(Digits, c) - 1

\* str.upper() / str.lower() of one character
UpperChar(c) == IF IsLowerLetter(c) THEN UpperLetters[IndexIn(LowerLetters, c)] ELSE c
LowerChar(c) == IF IsUpperLetter(c) THEN LowerLetters[IndexIn(UpperLetters, c)] ELSE c
Upper(s) == [i \in DOMAIN s |-> UpperChar(s[i])]
Lower(s) == [i \in DOMAIN s |-> LowerChar(s[i])]

\* s[from:] with a 1-based from
Drop(s, n) == IF n >= Len(s) THEN <<>> ELSE SubSeq(s, n + 1, Len(s))
Take(s, n) == IF n >= Len(s) THEN s ELSE SubSeq(s, 1, n)

\* s.startswith(p) at offset i (1-based): s[i .. i+len(p)-1] = p
MatchAt(s, p, i) ==
  /\ i + Len(p) - 1 <= Len(s)
  /\ \A k \in 1..Len(p) : s[i + k - 1] = p[k]

StartsWith(s, p) == MatchAt(s, p, 1)

\* p in s
Contains(s, p) == \E i \in 1..(Len(s) + 1) : MatchAt(s, p, i)

\* s.replace(old, new) for a non-empty old: leftmost, non-overlapping
RECURSIVE Replace(_, _, _)
Replace(s, old, new) ==
  IF s = <<>> THEN <<>>
  ELSE IF MatchAt(s, old, 1) THEN new \o Replace(Drop(s, Len(old)), old, new)
  ELSE <<Head(s)>> \o Replace(Tail(s), old, new)

\* s.lstrip(), s.rstrip(), s.strip(): the only whitespace of the model is " "
RECURSIVE LStrip(_)
LStrip(s) == IF s # <<>> /\ Head(s) = " " THEN LStrip(Tail(s)) ELSE s

RECURSIVE RStrip(_)
RStrip(s) == IF s # <<>> /\ s[Len(s)] = " " THEN RStrip(Take(s, Len(s) - 1)) ELSE s

Strip(s) == RStrip(LStrip(s))

\* re.sub(' +', ' ', s)
RECURSIVE CollapseSpaces(_)
CollapseSpaces(s) ==
  IF s = <<>> THEN <<>>
  ELSE IF Head(s) = " " THEN <<" ">> \o CollapseSpaces(LStrip(s))
  ELSE <<Head(s)>> \o CollapseSpaces(Tail(s))

\* ''.join(word.capitalize() for word in re.split(r"([\w']+)", s)): the first
\* character of every run of word characters is upper-cased, the rest of the
\* run lower-cased, the separators are kept
Capitalize(s) ==
  [i \in DOMAIN s |->
     IF ~IsWordChar(s[i]) THEN s[i]
     ELSE IF i = 1 \/ ~IsWordChar(s[i - 1]) THEN UpperChar(s[i])
     ELSE LowerChar(s[i])]

\* ------------------------------------------------------------- integers

\* int(x) of a str or bytes: surrounding whitespace, an optional sign, digits
IntBody(s) == LET t == Strip(s) IN
              IF t # <<>> /\ t[1] \in {"+", "-"} THEN Tail(t) ELSE t
IntOk(s) == IntBody(s) # <<>> /\ \A i \in DOMAIN IntBody(s) : IsDigit(IntBody(s)[i])

RECURSIVE DigitsVal(_)
DigitsVal(d) == IF d = <<>> THEN 0
                ELSE 10 * DigitsVal(Take(d, Len(d) - 1)) + DigitVal(d[Len(d)])

IntVal(s) == LET t == Strip(s) IN
             IF t[1] = "-" THEN 0 - DigitsVal(IntBody(s)) ELSE DigitsVal(IntBody(s))

\* str(n) of an integer
RECURSIVE NatStr(_)
NatStr(n) == IF n < 10 THEN <<Digits[n + 1]>>
             ELSE NatStr(n \div 10) \o <<Digits[(n % 10) + 1]>>

IntStr(n) == IF n < 0 THEN <<"-">> \o NatStr(0 - n) ELSE NatStr(n)

\* A track number is an int or a str: both fields are always present
NumInt(n) == [isInt |-> TRUE, n |-> n, s |-> <<>>]
NumStr(s) == [isInt |-> FALSE, n |-> 0, s |-> s]
\* str(taginfo.number)
NumToStr(num) == IF num.isInt THEN IntStr(num.n) ELSE num.s
\* truth value of a number field
NumTruthy(num) == IF num.isInt THEN num.n # 0 ELSE num.s # <<>>


\* ---------------------------------------------------------- path helpers

\* index of the last occurrence of c in s, 0 when there is none (rfind + 1)
LastIndexOf(s, c) ==
  IF \E i \in DOMAIN s : s[i] = c
  THEN CHOOSE i \in DOMAIN s : s[i] = c /\ \A j \in DOMAIN s : s[j] = c => j <= i
  ELSE 0

RECURSIVE RStripSlash(_)
RStripSlash(s) ==
  IF s # <<>> /\ s[Len(s)] = "/" THEN RStripSlash(Take(s, Len(s) - 1)) ELSE s

\* os.path.split(p): <<head, tail>>
PathSplit(p) ==
  LET i == LastIndexOf(p, "/")
      head == Take(p, i)
      tail == Drop(p, i)
  IN <<IF head # <<>> /\ (\E k \in DOMAIN head : head[k] # "/")
       THEN RStripSlash(head) ELSE head,
       tail>>

\* os.path.join(a, b)
PathJoin(a, b) ==
  IF b # <<>> /\ b[1] = "/" THEN b
  ELSE IF a = <<>> \/ a[Len(a)] = "/" THEN a \o b
  ELSE a \o <<"/">> \o b

\* reduce(os.path.join, parts) of a non-empty list
RECURSIVE JoinAll(_)
JoinAll(parts) ==
  IF Len(parts) = 1 THEN parts[1]
  ELSE PathJoin(JoinAll(Take(parts, Len(parts) - 1)), parts[Len(parts)])

\* the while loop of _split_path: path is what is left, dirnames the segments
RECURSIVE SplitLoop(_, _)
SplitLoop(path, dirnames) ==
  IF path = <<>> THEN dirnames
  ELSE LET sp == PathSplit(path) IN
       IF sp[2] # <<>> THEN SplitLoop(sp[1], <<sp[2]>> \o dirnames)
       ELSE IF sp[1] # <<>> THEN <<sp[1]>> \o dirnames
       ELSE dirnames

\* _split_path(path): the directory segments, then the file name
SplitPath(path) ==
  LET sp == PathSplit(path) IN SplitLoop(sp[1], <<>>) \o <<sp[2]>>

\* os.path.splitext(name)[0] of a base name: the last dot starts the
\* extension unless only dots precede it
SplitExtRoot(name) ==
  LET d == LastIndexOf(name, ".") IN
  IF d > 0 /\ (\E k \in 1..(d - 1) : name[k] # ".") THEN Take(name, d - 1) ELSE name

\* the zip of get_max_common_beginning: index of the first False of comps,
\* 0 when comps holds no False
FirstMismatch(a, b) ==
  LET n == IF Len(a) < Len(b) THEN Len(a) ELSE Len(b)
      bad == {i \in 1..n : a[i] # b[i]}
  IN IF bad = {} THEN 0 ELSE CHOOSE i \in bad : \A j \in bad : i <= j

\* the for loop of get_max_common_beginning over sequences[k..]
RECURSIVE CommonLoop(_, _, _)
CommonLoop(sequences, k, max_beginning) ==
  IF k > Len(sequences) THEN max_beginning
  ELSE LET m == FirstMismatch(max_beginning, sequences[k]) IN
       CommonLoop(sequences, k + 1,
                  IF m # 0 THEN Take(sequences[k], m - 1) ELSE max_beginning)

\* get_max_common_beginning(sequences); None for an empty list
get_max_common_beginning(sequences) ==
  IF sequences = <<>> THEN NoneVal
  ELSE CommonLoop(sequences, 1, sequences[1])

\* frequencies[value] of get_most_frequent_value
Frequency(valuelist, v) == Cardinality({i \in DOMAIN valuelist : valuelist[i] = v})

\* get_most_frequent_value(valuelist): the first key of the dict (the value
\* first met) among those of maximal frequency; None for an empty list
get_most_frequent_value(valuelist) ==
  IF valuelist = <<>> THEN NoneVal
  ELSE LET max_freq == CHOOSE m \in {Frequency(valuelist, valuelist[i]) : i \in DOMAIN valuelist} :
                         \A i \in DOMAIN valuelist : Frequency(valuelist, valuelist[i]) <= m
           first == CHOOSE i \in DOMAIN valuelist :
                      /\ Frequency(valuelist, valuelist[i]) = max_freq
                      /\ \A j \in 1..(i - 1) : Frequency(valuelist, valuelist[j]) # max_freq
       IN valuelist[first]


\* ------------------------------------------------- filesystem inference

\* number of leading digits of s: the greedy [0-9]+ of FILE_PATTERNS
RECURSIVE LeadingDigits(_)
LeadingDigits(s) ==
  IF s # <<>> /\ IsDigit(Head(s)) THEN 1 + LeadingDigits(Tail(s)) ELSE 0

NoParts == [hasNumber |-> FALSE, number |-> <<>>, hasTitle |-> FALSE, title |-> <<>>]
Parts(number, title) ==
  [hasNumber |-> TRUE, number |-> number, hasTitle |-> TRUE, title |-> title]

\* parse(FILE_PATTERNS, filename): the groupdict of the first pattern that
\* matches at the start, each pattern matched greedily with backtracking
ParseFileName(s) ==
  LET k == LeadingDigits(s)
      num == Take(s, k)
      \* position after ' ?-' following the digits, 0 when it does not match
      dash == IF k + 2 <= Len(s) /\ s[k + 1] = " " /\ s[k + 2] = "-" THEN k + 3
              ELSE IF k + 1 <= Len(s) /\ s[k + 1] = "-" THEN k + 2
              ELSE 0
      rest == Drop(s, dash - 1)
  IN IF k >= 1 /\ dash # 0 /\ rest # <<>>
       \* (?P<number>[0-9]+) ?- ?(?P<title>.+)
       THEN Parts(num, IF rest[1] = " " /\ Len(rest) >= 2 THEN Tail(rest) ELSE rest)
     ELSE IF k >= 1 /\ Len(s) >= k + 2 /\ s[k + 1] \in {".", "_", " "}
       \* (?P<number>[0-9]+)\.(?P<title>.+), ..._..., ... ...
       THEN Parts(num, Drop(s, k + 1))
     ELSE IF k >= 1 /\ Len(s) > k
       \* (?P<number>[0-9]+)(?P<title>.+)
       THEN Parts(num, Drop(s, k))
     ELSE IF k >= 2
       \* the same pattern on digits only: the last digit is given back to .+
       THEN Parts(Take(s, k - 1), <<s[k]>>)
     ELSE IF s # <<>>
       \* (?P<title>.+)
       THEN [hasNumber |-> FALSE, number |-> <<>>, hasTitle |-> TRUE, title |-> s]
     ELSE NoParts

\* One entry of get_tags_from_filesystem: the record inferred for filepath,
\* the index-th path of the sorted batch.  dir_parts is what DIR_PATTERNS and
\* the grandparent fallback give for the directory (artist, year, album, each
\* possibly empty): it is an input of the model.
FsTagInfo(filepath, index, dir_parts) ==
  LET filename == SplitExtRoot(PathSplit(filepath)[2])
      file_parts == ParseFileName(filename)
  IN [artist |-> dir_parts.artist,
      year |-> dir_parts.year,
      album |-> dir_parts.album,
      number |-> IF file_parts.hasNumber /\ file_parts.number # <<>>
                 THEN NumStr(file_parts.number) ELSE NumInt(index),
      title |-> IF file_parts.hasTitle THEN file_parts.title ELSE <<>>,
      fs_index |-> index]

\* lexicographic order of str, characters ordered by CharOrder
CharOrder == <<" ", "'", "(", ")", "+", "-", ".", "/">> \o Digits \o UpperLetters
             \o <<"[", "]", "_">> \o LowerLetters
CharRank(c) == IndexIn(CharOrder, c)

RECURSIVE StrLess(_, _)
StrLess(a, b) ==
  IF b = <<>> THEN FALSE
  ELSE IF a = <<>> THEN TRUE
  ELSE IF a[1] = b[1] THEN StrLess(Tail(a), Tail(b))
  ELSE CharRank(a[1]) < CharRank(b[1])

\* enumerate(sorted(tags.keys()), 1): the 1-based place of filepath
SortedIndex(filepaths, filepath) ==
  1 + Cardinality({i \in DOMAIN filepaths : StrLess(filepaths[i], filepath)})

\* get_tags_from_filesystem(sorted(tags.keys())), as a sequence aligned with
\* the keys
get_tags_from_filesystem(filepaths, dir_parts) ==
  [i \in DOMAIN filepaths |->
     FsTagInfo(filepaths[i], SortedIndex(filepaths, filepaths[i]), dir_parts)]

\* ------------------------------------------------------------ repair_tags

\* MergeField without its test of fs_taginfo.x: an empty inferred value
\* replaces the embedded one
MergeFieldUnchecked(force, e, f) == IF force \/ e = <<>> THEN f ELSE e

\* if (args.FORCE_FS_TAGS or not taginfo.x) and fs_taginfo.x: taginfo.x = fs_taginfo.x
MergeField(force, e, f) == IF (force \/ e = <<>>) /\ f # <<>> THEN f ELSE e
MergeNumber(force, e, f) == IF (force \/ ~NumTruthy(e)) /\ NumTruthy(f) THEN f ELSE e
\* if args.X: taginfo.x = args.X
Override(forced, v) == IF forced # <<>> THEN forced ELSE v

\* lines 229-239: the merged record
MergeTags(taginfo, fs_taginfo, args) ==
  [artist |-> Override(args.ARTIST,
                       MergeField(args.FORCE_FS_TAGS, taginfo.artist, fs_taginfo.artist)),
   year |-> Override(args.YEAR,
                     MergeField(args.FORCE_FS_TAGS, taginfo.year, fs_taginfo.year)),
   album |-> Override(args.ALBUM,
                      MergeField(args.FORCE_FS_TAGS, taginfo.album, fs_taginfo.album)),
   number |-> MergeNumber(args.FORCE_FS_TAGS, taginfo.number, fs_taginfo.number),
   title |-> MergeField(args.FORCE_FS_TAGS, taginfo.title, fs_taginfo.title)]

\* re.match(r'CD ?[0-9]', s, re.IGNORECASE)
IsDiscSegment(s) ==
  /\ Len(s) >= 3
  /\ UpperChar(s[1]) = "C"
  /\ UpperChar(s[2]) = "D"
  /\ \/ IsDigit(s[3])
     \/ Len(s) >= 4 /\ s[3] = " " /\ IsDigit(s[4])

\* lines 245-249
AlbumNoise(album) ==
  Replace(Replace(Replace(Replace(Replace(album,
    <<"(", "D", "e", "l", "u", "x", "e", " ", "E", "d", "i", "t", "i", "o", "n", ")">>, <<>>),
    <<"(", "3", "2", "0", "k", ")">>, <<>>),
    <<"(", "l", "i", "m", "i", "t", "e", "d", " ", "e", "d", "i", "t", "i", "o", "n", ")">>, <<>>),
    <<"[", "D", "e", "m", "o", "n", "U", "p", "l", "o", "a", "d", "e", "r", "]">>, <<>>),
    <<" ", "(", "R", "e", "m", "a", "s", "t", "e", "r", "e", "d", ")">>, <<>>)

\* lines 250-253 (the Cyrillic marker of line 251 is written in Latin
\* transliteration: no value of the model holds it)
ArtistNoise(artist) ==
  Replace(Replace(Replace(Replace(artist,
    <<"[", "D", "i", "s", "c", "o", "g", "r", "a", "p", "h", "y", "]">>, <<>>),
    <<" ", "-", " ", "d", "i", "s", "k", "o", "g", "r", "a", "f", "i", "y", "a">>, <<>>),
    <<"-", "C", "o", "l", "l", "e", "c", "t", "i", "o", "n", ".", "2", "0", "0", "0", "-", "2", "0", "0", "8", ".", "M", "P", "3", ".", "3", "2", "0", "k", "b", "p", "s">>, <<>>),
    <<"T", "h", "e", ".">>, <<"T", "h", "e", " ">>)

\* re.match(r'(.*[^ ]) ?- ?(.*)', title): <<matched, group(1), group(2)>>, the
\* greedy group(1) being the longest that lets the rest match
TitleDash(title) ==
  LET ends == {i \in DOMAIN title :
                 /\ title[i] # " "
                 /\ \/ i + 1 <= Len(title) /\ title[i + 1] = "-"
                    \/ i + 2 <= Len(title) /\ title[i + 1] = " " /\ title[i + 2] = "-"}
  IN IF ends = {} THEN <<FALSE, <<>>, <<>>>>
     ELSE LET i == CHOOSE e \in ends : \A o \in ends : o <= e
              after == IF title[i + 1] = "-" THEN Drop(title, i + 1) ELSE Drop(title, i + 2)
          IN <<TRUE, Take(title, i),
               IF after # <<>> /\ after[1] = " " THEN Tail(after) ELSE after>>

\* re.match(r'([0-9]{4}).*', year): group(1), or None
YearRepair(year) ==
  IF Len(year) >= 4 /\ \A i \in 1..4 : IsDigit(year[i]) THEN Take(year, 4) ELSE NoneVal

\* The body of the for loop of repair_tags, statement group by statement
\* group.  Each group maps the record (taginfo) to the record after it; a
\* group that can raise gives [ok, err, tag], ok being FALSE when the
\* exception err leaves repair_tags.

Done(tag) == [ok |-> TRUE, err |-> "", tag |-> tag]
Raise(err, tag) == [ok |-> FALSE, err |-> err, tag |-> tag]

\* lines 242-253: the trailing disc segment of the album, the noise tokens
AlbumRepair(taginfo) ==
  LET album_parts == SplitPath(taginfo.album) IN
  IF IsDiscSegment(album_parts[Len(album_parts)])
  THEN IF Len(album_parts) = 1
       THEN Raise("TypeError: reduce() of empty iterable with no initial value", taginfo)
       ELSE Done([taginfo EXCEPT
                    !.album = AlbumNoise(JoinAll(Take(album_parts, Len(album_parts) - 1))),
                    !.artist = ArtistNoise(taginfo.artist)])
  ELSE Done([taginfo EXCEPT !.album = AlbumNoise(taginfo.album),
                            !.artist = ArtistNoise(taginfo.artist)])

\* lines 255-259: int(taginfo.number), fs_taginfo.number on ValueError
NumberRepair(taginfo, fs_taginfo) ==
  [taginfo EXCEPT !.number =
     IF taginfo.number.isInt THEN taginfo.number
     ELSE IF IntOk(taginfo.number.s) THEN NumInt(IntVal(taginfo.number.s))
     ELSE fs_taginfo.number]

\* lines 261-262
TitleSeparators(title, separator) ==
  Replace(Replace(title, separator, <<" ">>), <<"_">>, <<" ">>)

\* lines 263-265 on the title of lines 261-262
TitlePrefix(taginfo, title, numstr) ==
  IF ~StartsWith(title, numstr) THEN Done([taginfo EXCEPT !.title = title])
  ELSE IF Len(title) = Len(numstr)
  THEN Raise("IndexError: string index out of range", [taginfo EXCEPT !.title = title])
  ELSE IF title[Len(numstr) + 1] \in {"-", ".", " ", "_"}
  THEN Done([taginfo EXCEPT !.title = LStrip(Drop(title, Len(numstr)))])
  ELSE Done([taginfo EXCEPT !.title = title])

\* lines 261-265
TitleRepair(taginfo, args) ==
  TitlePrefix(taginfo, TitleSeparators(taginfo.title, args.SEPARATOR),
              NumToStr(taginfo.number))

\* taginfo.number += n (lines 270, 273): a str number raises TypeError
AddDisc(r, n) ==
  IF ~r.ok THEN r
  ELSE IF ~r.tag.number.isInt
  THEN Raise("TypeError: can only concatenate str (not int) to str", r.tag)
  ELSE Done([r.tag EXCEPT !.number = NumInt(r.tag.number.n + n)])

\* lines 268-270 / 271-273: marker is 'CD 1' or 'CD 2'
DiscMarker(r, marker, n) ==
  IF r.ok /\ Contains(r.tag.album, marker)
  THEN AddDisc(Done([r.tag EXCEPT
                       !.album = Replace(r.tag.album, <<" ", "-", " ">> \o marker, <<>>)]), n)
  ELSE r

\* lines 267-273
DiscRepair(taginfo, args) ==
  DiscMarker(
    DiscMarker(Done([taginfo EXCEPT !.album = Replace(taginfo.album, args.SEPARATOR, <<" ">>)]),
               <<"C", "D", " ", "1">>, 100),
    <<"C", "D", " ", "2">>, 200)

\* lines 288-291 on the title and artist of lines 275-286
SelfTitle(title, artist) ==
  LET m == TitleDash(title) IN
  IF m[1] /\ Lower(m[2]) = Lower(artist) THEN m[3] ELSE title

\* lines 275-301: separators, whitespace, "Artist - Title", the year, the case
Normalize(taginfo, args) ==
  LET artist == CollapseSpaces(Strip(
                  Replace(Replace(taginfo.artist, args.SEPARATOR, <<" ">>),
                          args.SEPARATOR, <<" ">>)))
  IN [artist |-> Capitalize(artist),
      album |-> Capitalize(CollapseSpaces(Strip(taginfo.album))),
      title |-> Capitalize(SelfTitle(CollapseSpaces(Strip(taginfo.title)), artist)),
      year |-> YearRepair(Strip(taginfo.year)),
      number |-> taginfo.number]

\* ------------------------------------------------------------ the state

VARIABLES
  pc,         \* the function that runs and the statement group it is at
  error,      \* the exception that left the function, "" when none
  \* repair_tags
  keys,       \* tags.keys() in iteration order: the sorted file paths
  embedded,   \* the records given to repair_tags, as extracted
  tags,       \* the records of the collection, repaired in place
  dir_parts,  \* what the directory name gives get_tags_from_filesystem
  args,       \* the parsed command line
  fs_tags,    \* the result of get_tags_from_filesystem
  pos,        \* number of files the for loop of repair_tags has handled
  steps,      \* per file: the record after the merge, the number after
              \* line 259 and the record after line 301 (history)
  \* reencode_tags
  raw,        \* per file, for artist, album, title in this order: whether the
              \* field is bytes, and what chardet.detect gives for it
  ENCODING,   \* args.ENCODING, '' when not given
  guessed,    \* what guess_encoding returned
  encoding,   \* the local encoding of reencode_tags
  \* get_max_common_beginning
  sequences,      \* its argument
  max_beginning,  \* what it returned
  \* get_exists_path_part
  fs,             \* the target filesystem: the entries that exist
  path,           \* the destination path
  existing_path,  \* the local existing_path
  remains,        \* the local remains, a list of segments until line 88
  \* get_new_filename, called file by file (line 355)
  root_entries,   \* os.listdir(root_path), with what each entry holds
  use_subdirs,    \* args.USE_SUBDIRS
  queue,          \* the records of the batch still to be planned
  default_subdir, \* the module-level default_subdir
  subdirs,        \* the candidates shown by the running prompt
  prompts,        \* how many times the prompt was started (history)
  planned         \* per planned file: its artist, the subdirectory used, the
                  \* path returned, whether it started the prompt (history)

repair_vars == <<keys, embedded, tags, dir_parts, args, fs_tags, pos, steps>>
enc_vars == <<raw, ENCODING, guessed, encoding>>
prefix_vars == <<sequences, max_beginning>>
walk_vars == <<fs, path, existing_path, remains>>
plan_vars == <<root_entries, use_subdirs, queue, default_subdir, subdirs, prompts, planned>>
vars == <<pc, error, repair_vars, enc_vars, prefix_vars, walk_vars, plan_vars>>

\* what each function leaves alone
OnlyRepair == UNCHANGED <<enc_vars, prefix_vars, walk_vars, plan_vars>>
OnlyEncoding == UNCHANGED <<error, repair_vars, prefix_vars, walk_vars, plan_vars>>
OnlyPrefix == UNCHANGED <<error, repair_vars, enc_vars, walk_vars, plan_vars>>
OnlyWalk == UNCHANGED <<repair_vars, enc_vars, prefix_vars, plan_vars>>
OnlyPlan == UNCHANGED <<error, repair_vars, enc_vars, prefix_vars, walk_vars>>

\* the state of a function that is not called
RepairIdle ==
  /\ keys = <<>> /\ embedded = <<>> /\ tags = <<>> /\ dir_parts = <<>> /\ args = <<>>
  /\ fs_tags = <<>> /\ pos = 0 /\ steps = <<>>
EncIdle == raw = <<>> /\ ENCODING = <<>> /\ guessed = NoneVal /\ encoding = NoneVal
PrefixIdle == sequences = <<>> /\ max_beginning = NoneVal
WalkIdle == fs = {} /\ path = <<>> /\ existing_path = <<>> /\ remains = <<>>
PlanIdle ==
  /\ root_entries = <<>> /\ use_subdirs = FALSE /\ queue = <<>> /\ default_subdir = NoneVal
  /\ subdirs = <<>> /\ prompts = 0 /\ planned = <<>>

\* ------------------------------------------------------ the reconciler


\* line 223 and the head of the for loop
RepairStart ==
  /\ pc = "repair_tags"
  /\ fs_tags' = get_tags_from_filesystem(keys, dir_parts)
  /\ pc' = "merge"
  /\ UNCHANGED <<keys, embedded, tags, dir_parts, args, pos, steps>>
  /\ UNCHANGED error /\ OnlyRepair

\* what a statement group of the loop body leaves: the record, or the exception
Outcome(r, next) ==
  /\ tags' = [tags EXCEPT ![pos + 1] = r.tag]
  /\ error' = r.err
  /\ pc' = IF r.ok THEN next ELSE "raised"

\* lines 229-239
RepairMerge ==
  /\ pc = "merge"
  /\ \E merged \in {MergeTags(tags[pos + 1], fs_tags[pos + 1], args)} :
       /\ tags' = [tags EXCEPT ![pos + 1] = merged]
       /\ steps' = Append(steps, [merged |-> merged, base |-> merged.number, tag |-> merged])
  /\ pc' = "album"
  /\ UNCHANGED <<keys, embedded, dir_parts, args, fs_tags, pos>>
  /\ UNCHANGED error /\ OnlyRepair

\* lines 242-253
RepairAlbum ==
  /\ pc = "album"
  /\ Outcome(AlbumRepair(tags[pos + 1]), "number")
  /\ UNCHANGED <<keys, embedded, dir_parts, args, fs_tags, pos, steps>>
  /\ OnlyRepair

\* lines 255-259
RepairNumber ==
  /\ pc = "number"
  /\ \E t \in {NumberRepair(tags[pos + 1], fs_tags[pos + 1])} :
       /\ tags' = [tags EXCEPT ![pos + 1] = t]
       /\ steps' = [steps EXCEPT ![pos + 1].base = t.number]
  /\ pc' = "title"
  /\ UNCHANGED <<keys, embedded, dir_parts, args, fs_tags, pos>>
  /\ UNCHANGED error /\ OnlyRepair

\* lines 261-265
RepairTitle ==
  /\ pc = "title"
  /\ Outcome(TitleRepair(tags[pos + 1], args), "disc")
  /\ UNCHANGED <<keys, embedded, dir_parts, args, fs_tags, pos, steps>>
  /\ OnlyRepair

\* lines 267-273
RepairDisc ==
  /\ pc = "disc"
  /\ Outcome(DiscRepair(tags[pos + 1], args), "normalize")
  /\ UNCHANGED <<keys, embedded, dir_parts, args, fs_tags, pos, steps>>
  /\ OnlyRepair

\* lines 275-301, and the for loop going on to the next file
RepairNormalize ==
  /\ pc = "normalize"
  /\ \E t \in {Normalize(tags[pos + 1], args)} :
       /\ tags' = [tags EXCEPT ![pos + 1] = t]
       /\ steps' = [steps EXCEPT ![pos + 1].tag = t]
  /\ pos' = pos + 1
  /\ pc' = IF pos + 1 < Len(keys) THEN "merge" ELSE "consensus"
  /\ UNCHANGED <<keys, embedded, dir_parts, args, fs_tags>>
  /\ UNCHANGED error /\ OnlyRepair

\* lines 303-311: the consensus pass and the return
RepairConsensus ==
  /\ pc = "consensus"
  /\ \E most_frequent_year \in {get_most_frequent_value([i \in DOMAIN tags |-> tags[i].year])},
        most_frequent_artist \in {get_most_frequent_value([i \in DOMAIN tags |-> tags[i].artist])} :
       tags' = [i \in DOMAIN tags |->
                  [tags[i] EXCEPT !.year = most_frequent_year,
                                  !.artist = most_frequent_artist]]
  /\ pc' = "returned"
  /\ UNCHANGED <<keys, embedded, dir_parts, args, fs_tags, pos, steps>>
  /\ UNCHANGED error /\ OnlyRepair

RepairStep ==
  \/ RepairStart
  \/ RepairMerge
  \/ RepairAlbum
  \/ RepairNumber
  \/ RepairTitle
  \/ RepairDisc
  \/ RepairNormalize
  \/ RepairConsensus

\* ---- inputs of the reconciler

MaxFiles == 2

MergePaths == {<<"d", "/", "0", "3", " ", "-", " ", "S", "o", "n", "g", ".", "m", "p", "3">>, <<"d", "/", "7", ".", "m", "p", "3">>, <<"d", "/", "T", "u", "n", "e", ".", "m", "p", "3">>, <<"d", "/", "a", ".", "m", "p", "3">>}

\* the keys of a collection: distinct paths in sorted order
SortedKeys(paths, n) ==
  {k \in [1..n -> paths] : \A i \in 1..(n - 1) : StrLess(k[i], k[i + 1])}

RepairInit(paths, records, dirs, arguments) ==
  /\ pc = "repair_tags"
  /\ \E n \in 1..MaxFiles :
       /\ keys \in SortedKeys(paths, n)
       /\ embedded \in [1..n -> records]
  /\ tags = embedded
  /\ dir_parts \in dirs
  /\ args \in arguments
  /\ fs_tags = <<>>
  /\ pos = 0
  /\ steps = <<>>

\* Embedded records for the merge: the fields of one group are all present or
\* all absent (a: artist, album, number; b: year, title)
MergeRecord(a, b) ==
  [artist |-> IF a THEN <<"A", "b">> ELSE <<>>,
   album |-> IF a THEN <<"G", "h">> ELSE <<>>,
   number |-> IF a THEN NumStr(<<"5">>) ELSE NumStr(<<>>),
   year |-> IF b THEN <<"1", "9", "9", "9">> ELSE <<>>,
   title |-> IF b THEN <<"S", "o", "n", "g">> ELSE <<>>]

\* what the directory gives: artist and album, and the year, present or not
MergeDir(a, b) ==
  [artist |-> IF a THEN <<"C", "d">> ELSE <<>>,
   album |-> IF a THEN <<"E", "f">> ELSE <<>>,
   year |-> IF b THEN <<"2", "0", "0", "0">> ELSE <<>>]

InitMerge ==
  /\ error = "" /\ EncIdle /\ PrefixIdle /\ WalkIdle /\ PlanIdle
  /\ RepairInit(MergePaths,
             {MergeRecord(a, b) : a \in BOOLEAN, b \in BOOLEAN},
             {MergeDir(a, b) : a \in BOOLEAN, b \in BOOLEAN},
             [FORCE_FS_TAGS : BOOLEAN, ALBUM : {<<>>, <<"O", "v">>}, ARTIST : {<<>>, <<"O", "w">>},
              YEAR : {<<>>, <<"2", "0", "0", "5">>}, SEPARATOR : {<<" ">>}])

\* Embedded records for the repair rules: disc markers in the album, numbers
\* that are not numeric, titles that carry their number
RepairPaths == {<<"d", "/", "0", "3", " ", "-", " ", "S", "o", "n", "g", ".", "m", "p", "3">>, <<"d", "/", "T", "u", "n", "e", ".", "m", "p", "3">>}

InitRepair ==
  /\ error = "" /\ EncIdle /\ PrefixIdle /\ WalkIdle /\ PlanIdle
  /\ RepairInit(RepairPaths,
             [artist : {<<"A", "b">>},
              year : {<<>>, <<"1", "9", "9", "9">>},
              album : {<<"G", "h">>, <<"G", "h", " ", "-", " ", "C", "D", " ", "2">>, <<"G", "h", " ", "C", "D", " ", "2">>, <<"G", "h", "/", "C", "D", " ", "2">>, <<"C", "D", "1">>},
              number : {NumStr(<<"3">>), NumStr(<<"A">>)},
              title : {<<"S", "o", "n", "g">>, <<"0", "3", " ", "-", " ", "S", "o", "n", "g">>, <<"3">>}],
             {[artist |-> <<>>, year |-> <<>>, album |-> <<"E", "f">>]},
             {[FORCE_FS_TAGS |-> FALSE, ALBUM |-> <<>>, ARTIST |-> <<>>,
               YEAR |-> <<>>, SEPARATOR |-> <<" ">>]})

\* ------------------------------------------------- the encoding resolver

\* An encoding name is the one-element sequence of its name, None is NoneVal
Ascii == <<"ascii">>


\* lines 314-322: the guesses of the bytes fields, file by file
RECURSIVE CollectGuesses(_)
CollectGuesses(fields) ==
  IF fields = <<>> THEN <<>>
  ELSE (IF Head(fields).isBytes THEN <<Head(fields).guess>> ELSE <<>>)
       \o CollectGuesses(Tail(fields))

RECURSIVE Flatten(_)
Flatten(files) == IF files = <<>> THEN <<>> ELSE Head(files) \o Flatten(Tail(files))

NotAscii(x) == x # Ascii

\* guess_encoding(tags): a filter object is true even when it yields
\* nothing, so the "ascii" guesses are always dropped (lines 324-327)
guess_encoding(files) ==
  get_most_frequent_value(SelectSeq(CollectGuesses(Flatten(files)), NotAscii))

\* lines 336-339: a result that is not true gives 'ascii'
DefaultEncoding(e) == IF e = NoneVal \/ e = <<>> THEN Ascii ELSE e

\* lines 331-333
EncOverride ==
  /\ pc = "reencode_tags"
  /\ ENCODING # <<>>
  /\ encoding' = ENCODING
  /\ pc' = "resolved"
  /\ UNCHANGED <<raw, ENCODING, guessed>>
  /\ OnlyEncoding

\* line 335
EncGuess ==
  /\ pc = "reencode_tags"
  /\ ENCODING = <<>>
  /\ guessed' = guess_encoding(raw)
  /\ pc' = "guessed"
  /\ UNCHANGED <<raw, ENCODING, encoding>>
  /\ OnlyEncoding

\* lines 336-339
EncDefault ==
  /\ pc = "guessed"
  /\ encoding' = DefaultEncoding(guessed)
  /\ pc' = "resolved"
  /\ UNCHANGED <<raw, ENCODING, guessed>>
  /\ OnlyEncoding

EncStep == EncOverride \/ EncGuess \/ EncDefault

MaxEncFiles == 2

\* what chardet.detect can answer for a bytes field; None for no answer
Guesses == {Ascii, <<"cp1251">>, <<"utf-8">>, NoneVal}

RawFields == {[isBytes |-> FALSE, guess |-> NoneVal]} \cup [isBytes : {TRUE}, guess : Guesses]

InitEncoding ==
  /\ error = "" /\ RepairIdle /\ PrefixIdle /\ WalkIdle /\ PlanIdle
  /\ pc = "reencode_tags"
  /\ \E n \in 1..MaxEncFiles : raw \in [1..n -> [1..3 -> RawFields]]
  /\ ENCODING \in {<<>>, <<"koi8-r">>}
  /\ guessed = NoneVal
  /\ encoding = NoneVal

\* ------------------------------------------------ the common beginning


\* lines 13-21
CommonBeginning ==
  /\ pc = "get_max_common_beginning"
  /\ max_beginning' = get_max_common_beginning(sequences)
  /\ pc' = "common_beginning"
  /\ UNCHANGED sequences
  /\ OnlyPrefix

MaxSequences == 3
MaxSegments == 2
Segments == {"a", "b"}

SegmentSequences == UNION {[1..n -> Segments] : n \in 0..MaxSegments}

InitPrefix ==
  /\ error = "" /\ RepairIdle /\ EncIdle /\ WalkIdle /\ PlanIdle
  /\ pc = "get_max_common_beginning"
  /\ \E n \in 0..MaxSequences : sequences \in [1..n -> SegmentSequences]
  /\ max_beginning = NoneVal

\* ------------------------------------------------ get_exists_path_part

\* an entry of the filesystem: its path from the working directory
Dir(p) == [path |-> p, isDir |-> TRUE]
File(p) == [path |-> p, isDir |-> FALSE]

\* os.path.exists(p)
Exists(files, p) == \E e \in files : e.path = p

\* os.listdir(d) raises for '' (FileNotFoundError) and for a file
\* (NotADirectoryError)
CanList(files, d) == \E e \in files : e.path = d /\ e.isDir
ListError(files, d) ==
  IF d = <<>> THEN "FileNotFoundError" ELSE "NotADirectoryError"

\* os.listdir(d): the names of the entries of directory d
ListDir(files, d) ==
  {PathSplit(e.path)[2] : e \in {x \in files : PathSplit(x.path)[1] = d}}

\* lines 74-75
WalkStart ==
  /\ pc = "get_exists_path_part"
  /\ existing_path' = <<>>
  /\ remains' = SplitPath(path)
  /\ pc' = "walk"
  /\ UNCHANGED <<error, fs, path>>
  /\ OnlyWalk

\* lines 76-77, 86-87: the segment exists as it is written
WalkExact ==
  /\ pc = "walk"
  /\ remains # <<>>
  /\ Exists(fs, PathJoin(existing_path, remains[1]))
  /\ existing_path' = PathJoin(existing_path, remains[1])
  /\ remains' = Tail(remains)
  /\ UNCHANGED <<pc, error, fs, path>>
  /\ OnlyWalk

\* lines 76-83, 86-87: an entry of another case stands for the segment (the
\* first one os.listdir gives, in an order the system chooses)
WalkListed ==
  /\ pc = "walk"
  /\ remains # <<>>
  /\ ~Exists(fs, PathJoin(existing_path, remains[1]))
  /\ CanList(fs, existing_path)
  /\ \E entry \in ListDir(fs, existing_path) :
       /\ Upper(entry) = Upper(remains[1])
       /\ existing_path' = PathJoin(existing_path, entry)
  /\ remains' = Tail(remains)
  /\ UNCHANGED <<pc, error, fs, path>>
  /\ OnlyWalk

\* lines 76-79: os.listdir raises
WalkRaise ==
  /\ pc = "walk"
  /\ remains # <<>>
  /\ ~Exists(fs, PathJoin(existing_path, remains[1]))
  /\ ~CanList(fs, existing_path)
  /\ error' = ListError(fs, existing_path)
  /\ pc' = "raised"
  /\ UNCHANGED <<fs, path, existing_path, remains>>
  /\ OnlyWalk

\* the while loop goes on: a segment is left and it exists, in some case
WalkGoesOn ==
  /\ remains # <<>>
  /\ (Exists(fs, PathJoin(existing_path, remains[1]))
      \/ ~CanList(fs, existing_path)
      \/ \E entry \in ListDir(fs, existing_path) : Upper(entry) = Upper(remains[1]))

\* lines 84-85, 88-89: the loop ends, remains becomes a path again
WalkReturn ==
  /\ pc = "walk"
  /\ ~WalkGoesOn
  /\ remains' = IF remains # <<>> THEN JoinAll(remains) ELSE <<>>
  /\ pc' = "walked"
  /\ UNCHANGED <<error, fs, path, existing_path>>
  /\ OnlyWalk

WalkStep == WalkStart \/ WalkExact \/ WalkListed \/ WalkRaise \/ WalkReturn

\* the entries a target filesystem can hold
AllEntries ==
  {Dir(<<"R", "o", "o", "t">>),
   Dir(<<"R", "o", "o", "t", "/", "A", "r", "t", "i", "s", "t">>),
   Dir(<<"R", "o", "o", "t", "/", "A", "R", "T", "I", "S", "T">>),
   Dir(<<"R", "o", "o", "t", "/", "A", "r", "t", "i", "s", "t", "/", "A", "l", "b", "u", "m">>),
   File(<<"R", "o", "o", "t", "/", "n", "o", "t", "e", "s">>)}

\* a filesystem holds the directories above each of its entries
Closed(files) ==
  \A e \in files :
    PathSplit(e.path)[1] # <<>> => \E d \in files : d.isDir /\ d.path = PathSplit(e.path)[1]

FileSystems == {files \in SUBSET AllEntries : Closed(files)}

Destinations == {<<"R", "o", "o", "t", "/", "a", "r", "t", "i", "s", "t", "/", "A", "l", "b", "u", "m", "/", "x">>,
                 <<"R", "o", "o", "t", "/", "A", "r", "t", "i", "s", "t", "/", "A", "l", "b", "u", "m", "/", "x">>,
                 <<"N", "e", "w", "/", "a", "/", "x">>,
                 <<"R", "o", "o", "t", "/", "n", "o", "t", "e", "s", "/", "x">>}

InitWalk ==
  /\ error = "" /\ RepairIdle /\ EncIdle /\ PrefixIdle /\ PlanIdle
  /\ pc = "get_exists_path_part"
  /\ fs \in FileSystems
  /\ path \in Destinations
  /\ existing_path = <<>>
  /\ remains = <<>>

\* ---------------------------------------------------- get_new_filename

\* lines 134-136: the first artist of a listing that is artist_dir in some
\* case, NoneVal when the listing has none
RECURSIVE FirstArtist(_, _)
FirstArtist(listing, artist_dir) ==
  IF listing = <<>> THEN NoneVal
  ELSE IF Lower(Head(listing)) = Lower(artist_dir) THEN Head(listing)
  ELSE FirstArtist(Tail(listing), artist_dir)

\* get_artist_subdir(root_path, artist_dir) on the listing of the root:
\* <<entry, artist>> of the first directory holding the artist in some case,
\* <<'', artist_dir>> when no directory does
RECURSIVE get_artist_subdir(_, _)
get_artist_subdir(entries, artist_dir) ==
  IF entries = <<>> THEN <<<<>>, artist_dir>>
  ELSE LET entry == Head(entries) IN
       IF entry.isDir /\ FirstArtist(entry.holds, artist_dir) # NoneVal
       THEN <<entry.name, FirstArtist(entry.holds, artist_dir)>>
       ELSE get_artist_subdir(Tail(entries), artist_dir)

\* "{0}".format(x) of a str or None
Format(x) == IF x = NoneVal THEN <<"N", "o", "n", "e">> ELSE x

\* "{0:0>2}".format(x)
Pad2(x) == IF Len(x) >= 2 THEN x
           ELSE IF Len(x) = 1 THEN <<"0">> \o x
           ELSE <<"0", "0">>

\* lines 144-145
AlbumDir(taginfo) == Format(taginfo.year) \o <<"-">> \o taginfo.album
FileName(taginfo) ==
  Replace(Pad2(NumToStr(taginfo.number)) \o <<"-">> \o taginfo.title
            \o <<".", "m", "p", "3">>,
          <<"/">>, <<"-">>)

\* lines 163 and 165
NewFileName(root_path, artist_subdir, artist_dir, taginfo, with_subdirs) ==
  IF with_subdirs
  THEN JoinAll(<<root_path, artist_subdir, artist_dir, AlbumDir(taginfo), FileName(taginfo)>>)
  ELSE JoinAll(<<root_path, artist_dir, AlbumDir(taginfo), FileName(taginfo)>>)

\* lines 148-149 with no test of default_subdir: every unresolved artist
\* starts the prompt
NeedsPromptAlways(artist_subdir, default) == artist_subdir = <<>>

\* lines 148-149: if not artist_subdir: if not default_subdir
NeedsPrompt(artist_subdir, default) ==
  artist_subdir = <<>> /\ (default = NoneVal \/ default = <<>>)

RootPath == <<"L", "i", "b">>

Plan(taginfo, artist_subdir, artist_dir, prompted) ==
  [artist |-> taginfo.artist,
   subdir |-> artist_subdir,
   prompted |-> prompted,
   path |-> NewFileName(RootPath, artist_subdir, artist_dir, taginfo, use_subdirs)]

\* get_new_filename for the next file of the batch, up to its return or to
\* the prompt of lines 150-156
PlanNext ==
  /\ pc = "get_new_filename"
  /\ queue # <<>>
  /\ \E found \in {get_artist_subdir(root_entries, Head(queue).artist)} :
       IF use_subdirs /\ NeedsPrompt(found[1], default_subdir)
       THEN /\ subdirs' = [i \in DOMAIN root_entries |-> root_entries[i].name]
            /\ prompts' = prompts + 1
            /\ pc' = "prompt"
            /\ UNCHANGED <<queue, planned>>
       ELSE /\ planned' = Append(planned,
                                 Plan(Head(queue),
                                      IF ~use_subdirs THEN <<>>
                                      ELSE IF found[1] = <<>> THEN default_subdir
                                      ELSE found[1],
                                      IF use_subdirs THEN found[2] ELSE Head(queue).artist,
                                      FALSE))
            /\ queue' = Tail(queue)
            /\ UNCHANGED <<pc, subdirs, prompts>>
  /\ UNCHANGED <<root_entries, use_subdirs, default_subdir>>
  /\ OnlyPlan

\* what input() can give: a number, or text that int() rejects
Answers == [isInt : {TRUE}, n : -1..Len(subdirs)] \cup {[isInt |-> FALSE, n |-> 0]}

\* lines 155-163: an answer to the prompt; the loop asks again unless the
\* answer is an index of subdirs
PromptAnswer ==
  /\ pc = "prompt"
  /\ \E answer \in Answers :
       IF answer.isInt /\ answer.n \in 0..(Len(subdirs) - 1)
       THEN /\ default_subdir' = subdirs[answer.n + 1]
            /\ planned' = Append(planned,
                                 Plan(Head(queue), subdirs[answer.n + 1],
                                      Head(queue).artist, TRUE))
            /\ queue' = Tail(queue)
            /\ pc' = "get_new_filename"
       ELSE UNCHANGED <<default_subdir, planned, queue, pc>>
  /\ UNCHANGED <<root_entries, use_subdirs, subdirs, prompts>>
  /\ OnlyPlan

\* line 355: every file of the batch has its new name
PlanDone ==
  /\ pc = "get_new_filename"
  /\ queue = <<>>
  /\ pc' = "planned"
  /\ UNCHANGED plan_vars
  /\ OnlyPlan

PlanStep == PlanNext \/ PromptAnswer \/ PlanDone

MaxBatch == 3

Entry(name, isDir, holds) == [name |-> name, isDir |-> isDir, holds |-> holds]
Rock == Entry(<<"R", "o", "c", "k">>, TRUE, <<<<"A", "b">>, <<"A", "B">>>>)
Pop == Entry(<<"P", "o", "p">>, TRUE, <<<<"C", "d">>>>)
Notes == Entry(<<"n", "o", "t", "e", "s">>, FALSE, <<>>)

RootListings == {<<>>, <<Rock>>, <<Rock, Pop>>, <<Pop, Notes, Rock>>}

PlanArtists == {<<"a", "b">>, <<"C", "d">>, <<"Z", "z">>, <<"Y", "y">>}

PlanRecords ==
  [artist : PlanArtists, year : {NoneVal}, album : {<<"G", "h">>}, number : {NumInt(3)},
   title : {<<"a", "/", "b">>}]

InitPlan ==
  /\ error = "" /\ RepairIdle /\ EncIdle /\ PrefixIdle /\ WalkIdle
  /\ pc = "get_new_filename"
  /\ root_entries \in RootListings
  /\ use_subdirs \in BOOLEAN
  /\ \E n \in 1..MaxBatch : queue \in [1..n -> PlanRecords]
  /\ default_subdir = NoneVal
  /\ subdirs = <<>>
  /\ prompts = 0
  /\ planned = <<>>

\* ------------------------------------------------------- specifications

SpecMerge == InitMerge /\ [][RepairStep]_vars
SpecRepair == InitRepair /\ [][RepairStep]_vars
SpecEncoding == InitEncoding /\ [][EncStep]_vars
SpecPrefix == InitPrefix /\ [][CommonBeginning]_vars
SpecWalk == InitWalk /\ [][WalkStep]_vars
SpecPlan == InitPlan /\ [][PlanStep]_vars

\* ------------------------------------------------------------ properties

Returned == pc = "returned"

\* "non-empty" of a year or an artist: neither None nor ''
NonEmpty(v) == v # NoneVal /\ v # <<>>

FirstIndex(values, v) ==
  CHOOSE i \in DOMAIN values : values[i] = v /\ \A j \in 1..(i - 1) : values[j] # v

\* v is the most frequent non-empty value of values, the first met on a tie
MostFrequentNonEmpty(values, v) ==
  /\ NonEmpty(v)
  /\ \E i \in DOMAIN values : values[i] = v
  /\ \A j \in DOMAIN values :
       NonEmpty(values[j]) /\ values[j] # v =>
         \/ Frequency(values, values[j]) < Frequency(values, v)
         \/ /\ Frequency(values, values[j]) = Frequency(values, v)
            /\ FirstIndex(values, v) < FirstIndex(values, values[j])

RepairedYears == [i \in DOMAIN steps |-> steps[i].tag.year]
RepairedArtists == [i \in DOMAIN steps |-> steps[i].tag.artist]

\* C1: once repair_tags has returned, all records share one year and one
\* artist, and each is the most frequent non-empty value among the per-file
\* repaired records whenever a non-empty value occurs (first met on a tie).
C1_ConsensusNonEmpty ==
  Returned =>
    /\ \A i \in DOMAIN tags : tags[i].year = tags[1].year /\ tags[i].artist = tags[1].artist
    /\ (\E i \in DOMAIN steps : NonEmpty(RepairedYears[i]))
         => MostFrequentNonEmpty(RepairedYears, tags[1].year)
    /\ (\E i \in DOMAIN steps : NonEmpty(RepairedArtists[i]))
         => MostFrequentNonEmpty(RepairedArtists, tags[1].artist)

\* the merge rule as the specification words it
MergeRule(forced, force, e, f) ==
  IF forced # <<>> THEN forced
  ELSE IF force \/ e = <<>> THEN (IF f # <<>> THEN f ELSE e)
  ELSE e

\* C2: for every file the merge step has handled, each merged field is the
\* forced value when one is given, else the inferred value when the force
\* flag is set or the embedded value is empty and the inferred value is not
\* empty, else the embedded value.
C2_MergePrecedence ==
  \A i \in DOMAIN steps :
    /\ steps[i].merged.artist =
         MergeRule(args.ARTIST, args.FORCE_FS_TAGS, embedded[i].artist, fs_tags[i].artist)
    /\ steps[i].merged.year =
         MergeRule(args.YEAR, args.FORCE_FS_TAGS, embedded[i].year, fs_tags[i].year)
    /\ steps[i].merged.album =
         MergeRule(args.ALBUM, args.FORCE_FS_TAGS, embedded[i].album, fs_tags[i].album)
    /\ steps[i].merged.title =
         MergeRule(<<>>, args.FORCE_FS_TAGS, embedded[i].title, fs_tags[i].title)
    /\ steps[i].merged.number =
         IF args.FORCE_FS_TAGS \/ ~NumTruthy(embedded[i].number)
         THEN (IF NumTruthy(fs_tags[i].number) THEN fs_tags[i].number
               ELSE embedded[i].number)
         ELSE embedded[i].number

\* a merged file where the force flag made the inferred artist replace a
\* present embedded one, a forced album was given, and an empty inferred
\* year left the embedded year in place
C2_Witness ==
  \E i \in DOMAIN steps :
    /\ args.FORCE_FS_TAGS /\ args.ARTIST = <<>> /\ args.ALBUM # <<>> /\ args.YEAR = <<>>
    /\ embedded[i].artist # <<>> /\ fs_tags[i].artist # <<>>
    /\ steps[i].merged.artist = fs_tags[i].artist
    /\ steps[i].merged.album = args.ALBUM
    /\ embedded[i].year # <<>> /\ fs_tags[i].year = <<>>
    /\ steps[i].merged.year = embedded[i].year

\* C3: once repair_tags has returned, every number is a non-negative
\* integer, and a merged number that int() rejects was replaced by the
\* file's 1-based index in the sorted batch.
C3_NumberIsIndex ==
  Returned =>
    \A i \in DOMAIN tags :
      /\ tags[i].number.isInt
      /\ tags[i].number.n >= 0
      /\ (~steps[i].merged.number.isInt /\ ~IntOk(steps[i].merged.number.s))
           => steps[i].base = NumInt(fs_tags[i].fs_index)

\* C4: repair_tags never ends by an exception.
C4_NeverRaises == pc # "raised"

Separators == {"-", ".", " ", "_"}

RECURSIVE StripSeparators(_)
StripSeparators(s) ==
  IF s # <<>> /\ Head(s) \in Separators THEN StripSeparators(Tail(s)) ELSE s

\* the title of file i after lines 261-262
SeparatedTitle(i) == TitleSeparators(steps[i].merged.title, args.SEPARATOR)

\* C5: once repair_tags has returned, a title that began (after the
\* separator replacement) with its own track number as written, followed by
\* a separator character, is the rest without the number and the separator.
C5_TitlePrefixStripped ==
  Returned =>
    \A i \in DOMAIN tags :
      LET t == SeparatedTitle(i)
          k == LeadingDigits(t)
          rest == CollapseSpaces(Strip(StripSeparators(Drop(t, k))))
      IN (/\ steps[i].base.isInt
          /\ k >= 1 /\ k < Len(t)
          /\ DigitsVal(Take(t, k)) = steps[i].base.n
          /\ t[k + 1] \in Separators
          /\ ~TitleDash(rest)[1])
         => tags[i].title = Capitalize(rest)

CD1 == <<"C", "D", " ", "1">>
CD2 == <<"C", "D", " ", "2">>

\* the number of file i is its number after line 259 plus n
NumberIsBasePlus(i, n) ==
  /\ steps[i].base.isInt
  /\ tags[i].number = NumInt(steps[i].base.n + n)

\* C6: once repair_tags has returned, a merged album holding "CD 2" has
\* added 200 to the number and the repaired album holds the marker no more
\* (in any case); the same with "CD 1" and 100; an album with neither marker
\* leaves the number as it was.
C6_DiscMarkers ==
  Returned =>
    \A i \in DOMAIN tags :
      LET album == steps[i].merged.album IN
      /\ Contains(album, CD2) /\ ~Contains(album, CD1)
           => NumberIsBasePlus(i, 200) /\ ~Contains(Upper(tags[i].album), CD2)
      /\ Contains(album, CD1) /\ ~Contains(album, CD2)
           => NumberIsBasePlus(i, 100) /\ ~Contains(Upper(tags[i].album), CD1)
      /\ ~Contains(album, CD1) /\ ~Contains(album, CD2)
           => tags[i].number = steps[i].base

AllGuesses == CollectGuesses(Flatten(raw))
IsName(x) == x # NoneVal
NamedGuesses == SelectSeq(AllGuesses, IsName)
NamedNotAscii == SelectSeq(NamedGuesses, NotAscii)

\* v is the most frequent value of values, the first met on a tie
MostFrequent(values, v) ==
  /\ \E i \in DOMAIN values : values[i] = v
  /\ \A j \in DOMAIN values :
       values[j] # v =>
         \/ Frequency(values, values[j]) < Frequency(values, v)
         \/ /\ Frequency(values, values[j]) = Frequency(values, v)
            /\ FirstIndex(values, v) < FirstIndex(values, values[j])

\* C7: the resolved encoding is the override when one is given; otherwise,
\* when some guess is an encoding other than "ascii", it is the most
\* frequent such guess (the first met on a tie); otherwise it is "ascii".
C7_EncodingResolution ==
  pc = "resolved" =>
    IF ENCODING # <<>> THEN encoding = ENCODING
    ELSE IF NamedNotAscii # <<>> THEN MostFrequent(NamedNotAscii, encoding)
    ELSE encoding = Ascii

IsPrefixOf(p, q) == Len(p) <= Len(q) /\ \A i \in DOMAIN p : p[i] = q[i]

\* C9: for a non-empty list the result is a prefix of every sequence of the
\* list and no longer sequence is; for an empty list it is None.
C9_CommonBeginning ==
  pc = "common_beginning" =>
    IF sequences = <<>> THEN max_beginning = NoneVal
    ELSE /\ \A i \in DOMAIN sequences : IsPrefixOf(max_beginning, sequences[i])
         /\ \A q \in SegmentSequences :
              (\A i \in DOMAIN sequences : IsPrefixOf(q, sequences[i]))
                => Len(q) <= Len(max_beginning)

\* ---- get_exists_path_part

Walked == pc = "walked"

\* the two results joined again
Rejoined == IF remains = <<>> THEN existing_path ELSE PathJoin(existing_path, remains)

\* some entry stands, exactly or in another case, for the first segment of
\* what is left to create
NextSegmentExists ==
  /\ remains # <<>>
  /\ \E e \in fs :
       /\ PathSplit(e.path)[1] = existing_path
       /\ Upper(PathSplit(e.path)[2]) = Upper(SplitPath(remains)[1])

\* C8: the walk never fails, and once it has returned the two results join
\* to the destination up to the case of the existing part, the existing part
\* exists, and the first segment left to create does not exist.
C8_ExistingPathPart ==
  /\ pc # "raised"
  /\ Walked =>
       /\ Upper(Rejoined) = Upper(path)
       /\ existing_path # <<>> => Exists(fs, existing_path)
       /\ ~NextSegmentExists

\* ---- get_new_filename

\* the files of the batch planned so far whose artist no directory holds
Unresolved(i) == get_artist_subdir(root_entries, planned[i].artist)[1] = <<>>

\* C10: with subdirectories in use the prompt starts at most once in a
\* batch; only the first unresolved file prompts, every unresolved file is
\* put under the subdirectory chosen then, and a file whose artist a
\* directory holds is put under that directory.
C10_PromptOnce ==
  use_subdirs =>
    /\ prompts <= 1
    /\ \A i \in DOMAIN planned :
         IF Unresolved(i)
         THEN /\ planned[i].subdir = default_subdir
              /\ default_subdir # NoneVal
              /\ planned[i].prompted <=> \A j \in 1..(i - 1) : ~Unresolved(j)
         ELSE /\ planned[i].subdir = get_artist_subdir(root_entries, planned[i].artist)[1]
              /\ ~planned[i].prompted

\* a whole batch is planned after one prompt: two files of unresolved
\* artists, then a file whose artist a directory holds
C10_Witness ==
  /\ pc = "planned"
  /\ use_subdirs
  /\ prompts = 1
  /\ Len(planned) = 3
  /\ Unresolved(1) /\ planned[1].prompted
  /\ Unresolved(2) /\ ~planned[2].prompted /\ planned[2].subdir = planned[1].subdir
  /\ ~Unresolved(3) /\ planned[3].subdir # planned[1].subdir

====
